---- MODULE Spec2Model ----
(***************************************************************************)
(* A model of route-compare: compute_routes (the client of the routing     *)
(* provider), format_duration / calculate_departure_time /                 *)
(* format_route_output (the report formatter), the command line main and   *)
(* the two POST endpoints of the HTTP facade.                              *)
(*                                                                         *)
(* Python values are modelled as follows.                                  *)
(*   - a str is a TLA+ string; a list is a sequence; a dict is a function  *)
(*     from its keys (a record), the empty dict being <<>>;                *)
(*   - Optional[str] is <<>> for None and <<s>> for the string s;          *)
(*   - a float is the integer number of tenths it holds (65.5 is 655);     *)
(*   - the JSON value the provider's body decodes to carries its type in   *)
(*     t (null, number, string, list, object) and its content in v; the    *)
(*     route dicts inside a routes list are plain dicts;                   *)
(*   - an exception is [class, msg]; Bases gives the classes an except     *)
(*     clause can name to catch it.                                        *)
(* The two emoji the code prints are written [pin] and [x]: a TLA+ string  *)
(* holds ASCII only.                                                       *)
(***************************************************************************)
EXTENDS Integers, Sequences, FiniteSets, TLC

VARIABLES
    pc,            \* where the one request in progress stands
    site,          \* the caller of compute_routes: main, /routes, /routes/formatted
    args,          \* origin, destination, departure_time, arrival_time
    time_field,    \* compute_routes' local
    time_value,    \* compute_routes' local
    request_body,  \* the JSON body of the POST to the provider
    response,      \* what the POST met: an exception, or a status and a body
    result,        \* the dict compute_routes returned
    raised,        \* the exception leaving the function called last, or NoValue
    output,        \* the lines format_route_output / format_duration produced
    seconds,       \* the argument of a direct format_duration call
    reply          \* what the caller answers: HTTP status and body, or the print

vars == <<pc, site, args, time_field, time_value, request_body, response,
          result, raised, output, seconds, reply>>

----------------------------------------------------------------------------
(* Bounds of the model *)

\* the provider returns at most MaxRoutes routes in the request pipeline
MaxRoutes == 2
\* a leg given to the formatter has at most MaxSteps steps
MaxSteps == 5
\* format_duration is applied to every whole second up to MaxSeconds
MaxSeconds == 3700

----------------------------------------------------------------------------
(* Python values *)

None == <<>>
Some(s) == <<s>>
EmptyDict == <<>>
NoValue == [unset |-> TRUE]
PyNone == [none |-> TRUE]

\* bool(x) of an Optional[str]: None and "" are false
Truthy(opt) == opt # None /\ opt[1] # ""

\* d.get(k, default)
Get(d, k, default) == IF k \in DOMAIN d THEN d[k] ELSE default

\* d[k] = v on a dict
SetItem(d, k, v) == [x \in DOMAIN d \cup {k} |-> IF x = k THEN v ELSE d[x]]

Min(a, b) == IF a <= b THEN a ELSE b

\* s[:n]
Take(s, n) == SubSeq(s, 1, Min(n, Len(s)))

StartsWith(s, p) == Len(s) >= Len(p) /\ SubSeq(s, 1, Len(p)) = p

\* p in s, for two strings
IsSubstring(p, s) ==
    \E i \in 1..(Len(s) - Len(p) + 1) : SubSeq(s, i, i + Len(p) - 1) = p

JNull == [t |-> "null"]
JNumber(n) == [t |-> "number", v |-> n]
JString(s) == [t |-> "string", v |-> s]
JList(l) == [t |-> "list", v |-> l]
JObject(d) == [t |-> "object", v |-> d]

\* the Python value of a decoded JSON value
Untag(j) == IF j.t = "null" THEN PyNone ELSE j.v

\* bool(j) of a decoded JSON value
JTruthy(j) ==
    CASE j.t = "null" -> FALSE
      [] j.t = "number" -> j.v # 0
      [] j.t = "string" -> j.v # ""
      [] j.t = "list" -> j.v # <<>>
      [] j.t = "object" -> DOMAIN j.v # {}

Exc(class, msg) == [class |-> class, msg |-> msg]

\* The classes of an exception's method resolution order. response.json()
\* raises requests.exceptions.JSONDecodeError, which derives from both
\* RequestException and json.JSONDecodeError, in requests 2.27 and later, and
\* json.JSONDecodeError itself before that.
Bases(class) ==
    CASE class = "ConnectionError" -> {"ConnectionError", "RequestException"}
      [] class = "Timeout" -> {"Timeout", "RequestException"}
      [] class = "HTTPError" -> {"HTTPError", "RequestException"}
      [] class = "requests.JSONDecodeError" ->
            {"requests.JSONDecodeError", "InvalidJSONError", "RequestException",
             "JSONDecodeError", "ValueError"}
      [] class = "JSONDecodeError" -> {"JSONDecodeError", "ValueError"}
      [] OTHER -> {class}

----------------------------------------------------------------------------
(* compute_routes *)

\* datetime.utcnow().isoformat() + "Z" at the instants a call is made
UtcNow == {"2026-01-28T12:00:00.123456Z"}

\* lines 34-43: the time constraint, arrival first; before it, the mutant
\* that lets the departure time win
ResolveTimeDepartureFirst(departure_time, arrival_time, now) ==
    IF Truthy(departure_time)
    THEN [time_field |-> "departureTime", time_value |-> departure_time[1]]
    ELSE IF Truthy(arrival_time)
    THEN [time_field |-> "arrivalTime", time_value |-> arrival_time[1]]
    ELSE [time_field |-> "departureTime", time_value |-> now]

ResolveTime(departure_time, arrival_time, now) ==
    IF Truthy(arrival_time)
    THEN [time_field |-> "arrivalTime", time_value |-> arrival_time[1]]
    ELSE IF Truthy(departure_time)
    THEN [time_field |-> "departureTime", time_value |-> departure_time[1]]
    ELSE [time_field |-> "departureTime", time_value |-> now]

\* lines 46-60: the request body with its time constraint; before it, the
\* mutant that attaches the time under both keys
BuildRequestBodyBothTimes(origin, destination, tf, tv) ==
    [origin |-> [address |-> origin],
     destination |-> [address |-> destination],
     travelMode |-> "DRIVE",
     computeAlternativeRoutes |-> TRUE,
     routingPreference |-> "TRAFFIC_AWARE_OPTIMAL",
     trafficModel |-> "PESSIMISTIC",
     polylineQuality |-> "OVERVIEW",
     departureTime |-> tv,
     arrivalTime |-> tv]

BuildRequestBody(origin, destination, tf, tv) ==
    LET body == [origin |-> [address |-> origin],
                 destination |-> [address |-> destination],
                 travelMode |-> "DRIVE",
                 computeAlternativeRoutes |-> TRUE,
                 routingPreference |-> "TRAFFIC_AWARE_OPTIMAL",
                 trafficModel |-> "PESSIMISTIC",
                 polylineQuality |-> "OVERVIEW"]
    IN  IF tf = "departureTime" THEN SetItem(body, "departureTime", tv)
        ELSE IF tf = "arrivalTime" THEN SetItem(body, "arrivalTime", tv)
        ELSE body

\* key in data (line 77): a dict looks among its keys, a list among its
\* elements, a str among its substrings; None and a number are not iterable
InOp(key, data) ==
    CASE data.t = "object" -> [value |-> key \in DOMAIN data.v]
      [] data.t = "list" -> [value |-> \E i \in DOMAIN data.v : data.v[i] = key]
      [] data.t = "string" -> [value |-> IsSubstring(key, data.v)]
      [] OTHER -> [raise |-> Exc("TypeError", "argument is not iterable")]

\* data[key] (line 77): only a dict is indexed by a str
Subscript(data, key) ==
    IF data.t = "object"
    THEN [value |-> data.v[key]]
    ELSE [raise |-> Exc("TypeError", "indices must be integers")]

\* response.raise_for_status() (line 74)
RaiseForStatus(status_code) ==
    IF status_code >= 400 /\ status_code < 500
    THEN [raise |-> Exc("HTTPError", ToString(status_code) \o " Client Error")]
    ELSE IF status_code >= 500 /\ status_code < 600
    THEN [raise |-> Exc("HTTPError", ToString(status_code) \o " Server Error")]
    ELSE [value |-> TRUE]

\* line 77: "routes" not in data or not data["routes"], with the mutant that
\* tests data["routes"] is None in place of its truth
NoRoutesNoneOnly(data) ==
    LET has == InOp("routes", data)
    IN  IF "raise" \in DOMAIN has THEN has
        ELSE IF ~has.value THEN [value |-> TRUE]
        ELSE LET item == Subscript(data, "routes")
             IN  IF "raise" \in DOMAIN item THEN item
                 ELSE [value |-> item.value.t = "null"]

NoRoutes(data) ==
    LET has == InOp("routes", data)
    IN  IF "raise" \in DOMAIN has THEN has
        ELSE IF ~has.value THEN [value |-> TRUE]
        ELSE LET item == Subscript(data, "routes")
             IN  IF "raise" \in DOMAIN item THEN item
                 ELSE [value |-> ~JTruthy(item.value)]

\* lines 80-85: the success dict; data.get("routes", []) is the decoded list
Success(tf, tv, data) ==
    [success |-> TRUE,
     time_field |-> tf,
     time_value |-> tv,
     routes |-> Untag(Get(data.v, "routes", JList(<<>>)))]

\* lines 70-85, the body of the try: resp is what the POST met. A resp of kind
\* fail is requests.post raising; json_error is the class response.json()
\* raises on a body that is not JSON.
TryBody(resp, tf, tv) ==
    IF resp.kind = "fail" THEN [raise |-> resp.exc]
    ELSE LET st == RaiseForStatus(resp.status_code)
         IN  IF "raise" \in DOMAIN st THEN st
             ELSE IF ~resp.is_json
             THEN [raise |-> Exc(resp.json_error,
                                 "Expecting value: line 1 column 1 (char 0)")]
             ELSE LET none == NoRoutes(resp.data)
                  IN  IF "raise" \in DOMAIN none THEN none
                      ELSE IF none.value
                      THEN [value |-> [error |-> "No routes found"]]
                      ELSE [value |-> Success(tf, tv, resp.data)]

\* lines 87-90: the except clauses, in the order they are written
ComputeRoutesHandlers ==
    << [catches |-> "RequestException", prefix |-> "API request failed: "],
       [catches |-> "JSONDecodeError", prefix |-> "Invalid JSON response: "] >>

\* Python runs the first except clause that names a class of the exception,
\* and lets the exception go on when none does
Except(handlers, exc) ==
    LET hits == {i \in DOMAIN handlers : handlers[i].catches \in Bases(exc.class)}
    IN  IF hits = {} THEN [raise |-> exc]
        ELSE LET first == CHOOSE i \in hits : \A j \in hits : i <= j
             IN  [value |-> [error |-> handlers[first].prefix \o exc.msg]]

\* lines 68-90: what compute_routes returns, or raises, once the POST is over
ComputeRoutesReturn(resp, tf, tv) ==
    LET r == TryBody(resp, tf, tv)
    IN  IF "raise" \in DOMAIN r THEN Except(ComputeRoutesHandlers, r.raise) ELSE r

----------------------------------------------------------------------------
(* The formatter *)

DigitChars == "0123456789"

CharAt(s, i) == SubSeq(s, i, i)

IsDigit(c) == \E d \in 0..9 : CharAt(DigitChars, d + 1) = c

DigitVal(c) == CHOOSE d \in 0..9 : CharAt(DigitChars, d + 1) = c

AllDigits(s) == s # "" /\ \A i \in 1..Len(s) : IsDigit(CharAt(s, i))

RECURSIVE ParseDigits(_)
ParseDigits(s) ==
    IF s = "" THEN 0
    ELSE 10 * ParseDigits(SubSeq(s, 1, Len(s) - 1)) + DigitVal(CharAt(s, Len(s)))

\* s.replace(c, "") for a one character c
RECURSIVE Remove(_, _)
Remove(s, c) ==
    IF s = "" THEN ""
    ELSE (IF CharAt(s, 1) = c THEN "" ELSE CharAt(s, 1))
         \o Remove(SubSeq(s, 2, Len(s)), c)

\* sep.join(parts)
RECURSIVE Join(_, _)
Join(sep, parts) ==
    IF parts = <<>> THEN ""
    ELSE IF Len(parts) = 1 THEN parts[1]
    ELSE parts[1] \o sep \o Join(sep, Tail(parts))

\* float(s), in tenths, of a decimal numeral with at most one digit after the
\* point; anything else the model gives it is no numeral
Float(s) ==
    LET dots == {i \in 1..Len(s) : CharAt(s, i) = "."}
    IN  IF AllDigits(s) THEN [value |-> 10 * ParseDigits(s)]
        ELSE IF /\ Cardinality(dots) = 1
                /\ LET i == CHOOSE j \in dots : TRUE
                   IN  /\ AllDigits(SubSeq(s, 1, i - 1))
                       /\ Len(s) = i + 1
                       /\ IsDigit(CharAt(s, i + 1))
        THEN LET i == CHOOSE j \in dots : TRUE
             IN  [value |-> 10 * ParseDigits(SubSeq(s, 1, i - 1))
                             + DigitVal(CharAt(s, i + 1))]
        ELSE [raise |-> Exc("ValueError", "could not convert string to float")]

\* int(x) of a float: towards zero
IntOf(x) == IF x >= 0 THEN x \div 10 ELSE -((-x) \div 10)

\* lines 101-116, with the mutant that leaves out "or not parts"
format_duration_no_zero(secs_float) ==
    LET total_seconds == IntOf(secs_float)
        hours == total_seconds \div 3600
        minutes == (total_seconds % 3600) \div 60
        secs == total_seconds % 60
        p1 == IF hours > 0 THEN <<ToString(hours) \o "h">> ELSE <<>>
        p2 == IF minutes > 0 THEN Append(p1, ToString(minutes) \o "m") ELSE p1
        parts == IF secs > 0 THEN Append(p2, ToString(secs) \o "s") ELSE p2
    IN  Join(" ", parts)

format_duration(secs_float) ==
    LET total_seconds == IntOf(secs_float)
        hours == total_seconds \div 3600
        minutes == (total_seconds % 3600) \div 60
        secs == total_seconds % 60
        p1 == IF hours > 0 THEN <<ToString(hours) \o "h">> ELSE <<>>
        p2 == IF minutes > 0 THEN Append(p1, ToString(minutes) \o "m") ELSE p1
        parts == IF secs > 0 \/ p2 = <<>>
                 THEN Append(p2, ToString(secs) \o "s") ELSE p2
    IN  Join(" ", parts)

\* arrival_time_iso.replace('Z', '+00:00')
RECURSIVE ReplaceZ(_)
ReplaceZ(s) ==
    IF s = "" THEN ""
    ELSE (IF CharAt(s, 1) = "Z" THEN "+00:00" ELSE CharAt(s, 1))
         \o ReplaceZ(SubSeq(s, 2, Len(s)))

\* datetime.fromisoformat of YYYY-MM-DDTHH:MM:SS[.ffffff]+00:00, the shape of
\* every timestamp of the model: the second of the day, in UTC
FromIsoFormat(s) ==
    LET rest == SubSeq(s, 20, Len(s))
        zone == IF Len(rest) > 0 /\ CharAt(rest, 1) = "."
                THEN SubSeq(rest, 8, Len(rest)) ELSE rest
        frac_ok == Len(rest) > 0 /\ CharAt(rest, 1) = "."
                       => Len(rest) >= 7 /\ AllDigits(SubSeq(rest, 2, 7))
    IN  IF /\ Len(s) >= 19
           /\ AllDigits(SubSeq(s, 1, 4)) /\ CharAt(s, 5) = "-"
           /\ AllDigits(SubSeq(s, 6, 7)) /\ CharAt(s, 8) = "-"
           /\ AllDigits(SubSeq(s, 9, 10)) /\ CharAt(s, 11) = "T"
           /\ AllDigits(SubSeq(s, 12, 13)) /\ CharAt(s, 14) = ":"
           /\ AllDigits(SubSeq(s, 15, 16)) /\ CharAt(s, 17) = ":"
           /\ AllDigits(SubSeq(s, 18, 19))
           /\ frac_ok /\ zone = "+00:00"
        THEN [value |-> 3600 * ParseDigits(SubSeq(s, 12, 13))
                        + 60 * ParseDigits(SubSeq(s, 15, 16))
                        + ParseDigits(SubSeq(s, 18, 19))]
        ELSE [raise |-> Exc("ValueError", "Invalid isoformat string")]

\* the offset of America/New_York from UTC, in hours, on the winter dates of
\* the model's timestamps (Eastern Standard Time)
EasternOffsetHours == -5

Pad2(n) == IF n < 10 THEN "0" \o ToString(n) ELSE ToString(n)

\* s.lstrip("0")
RECURSIVE LStrip0(_)
LStrip0(s) ==
    IF s # "" /\ CharAt(s, 1) = "0" THEN LStrip0(SubSeq(s, 2, Len(s))) ELSE s

\* strftime("%I:%M %p") of a second of the day
StrfTime(sec) ==
    LET hour == sec \div 3600
        minute == (sec % 3600) \div 60
        hour12 == IF hour % 12 = 0 THEN 12 ELSE hour % 12
    IN  Pad2(hour12) \o ":" \o Pad2(minute) \o " "
        \o (IF hour < 12 THEN "AM" ELSE "PM")

\* lines 92-99
calculate_departure_time(arrival_time_iso, duration_seconds) ==
    LET arrival == FromIsoFormat(ReplaceZ(arrival_time_iso))
    IN  IF "raise" \in DOMAIN arrival THEN arrival
        ELSE LET departure_utc == (10 * arrival.value - duration_seconds) \div 10
                 departure_local ==
                     (departure_utc + 3600 * EasternOffsetHours) % 86400
             IN  [value |-> LStrip0(StrfTime(departure_local))]

\* f"{distance_m / 1000:.1f}" of a whole number of metres that is not halfway
\* between two tenths of a kilometre
FormatKm(distance_m) ==
    LET tenths == (distance_m + 50) \div 100
    IN  ToString(tenths \div 10) \o "." \o ToString(tenths % 10)

\* line 151: the latest departure is shown for an arrival time, with the
\* mutant that shows it for every query
ShowLatestDepartureAlways(tf) == TRUE

ShowLatestDeparture(tf) == tf = "arrivalTime"

\* line 164
PolylineLine(encoded) == "  Polyline (encoded): " \o Take(encoded, 60) \o "..."

\* line 176: steps[:3], with the mutant that shows every step
StepsShownAll(steps) == steps

StepsShown(steps) == Take(steps, 3)

\* lines 177-181: the line of one step, none when its instruction is empty
StepLine(step, step_idx) ==
    LET nav == Get(step, "navigationInstruction", EmptyDict)
        instruction == Get(nav, "instructions", "")
        maneuver == Get(nav, "maneuver", "STRAIGHT")
    IN  IF instruction # ""
        THEN << "      " \o ToString(step_idx) \o ". " \o maneuver \o ": "
                \o Take(instruction, 60) >>
        ELSE <<>>

\* lines 176-181: the lines of shown[from..]
RECURSIVE StepLines(_, _)
StepLines(shown, from) ==
    IF from > Len(shown) THEN <<>>
    ELSE StepLine(shown[from], from) \o StepLines(shown, from + 1)

\* lines 170-183: one leg
LegLines(leg, leg_idx) ==
    LET steps == Get(leg, "steps", <<>>)
    IN  << "  Leg " \o ToString(leg_idx) \o ":" >>
        \o (IF steps # <<>>
            THEN << "    Directions (first 3 steps):" >>
                 \o StepLines(StepsShown(steps), 1)
                 \o (IF Len(steps) > 3
                     THEN << "      ... and " \o ToString(Len(steps) - 3)
                             \o " more steps" >>
                     ELSE <<>>)
            ELSE <<>>)

RECURSIVE LegsLines(_, _)
LegsLines(legs, from) ==
    IF from > Len(legs) THEN <<>>
    ELSE LegLines(legs[from], from) \o LegsLines(legs, from + 1)

\* lines 137-185: the block of route i, or the exception it raises
RouteLines(route, i, tf, tv) ==
    LET distance_m == Get(route, "distanceMeters", 0)
        head == << "Route " \o ToString(i) \o ":",
                   "  Distance: " \o FormatKm(distance_m) \o " km ("
                       \o ToString(distance_m) \o "m)" >>
        duration_sec ==
            IF "duration" \notin DOMAIN route
            THEN [raise |-> Exc("KeyError", "'duration'")]
            ELSE Float(Remove(route["duration"], "s"))
        departure ==
            IF ShowLatestDeparture(tf)
            THEN calculate_departure_time(tv, duration_sec.value)
            ELSE [value |-> ""]
        summary == Get(route, "summary", "")
        encoded == Get(Get(route, "polyline", EmptyDict), "encodedPolyline", "")
    IN  IF "raise" \in DOMAIN duration_sec THEN duration_sec
        ELSE IF "raise" \in DOMAIN departure THEN departure
        ELSE [value |->
                head
                \o << "  Duration (PESSIMISTIC, Typical Worst Case): "
                      \o format_duration(duration_sec.value) >>
                \o (IF ShowLatestDeparture(tf)
                    THEN << "  Latest Departure (to arrive on time): "
                            \o departure.value >>
                    ELSE <<>>)
                \o (IF summary # "" THEN << "  Route: " \o summary >> ELSE <<>>)
                \o (IF encoded # "" THEN << PolylineLine(encoded) >> ELSE <<>>)
                \o LegsLines(Get(route, "legs", <<>>), 1)
                \o << "" >>]

\* lines 136-185: the blocks of routes[from..]
RECURSIVE RoutesLines(_, _, _, _)
RoutesLines(routes, from, tf, tv) ==
    IF from > Len(routes) THEN [value |-> <<>>]
    ELSE LET one == RouteLines(routes[from], from, tf, tv)
         IN  IF "raise" \in DOMAIN one THEN one
             ELSE LET more == RoutesLines(routes, from + 1, tf, tv)
                  IN  IF "raise" \in DOMAIN more THEN more
                      ELSE [value |-> one.value \o more.value]

\* lines 118-187: the lines of the report ("\n".join(output) writes them one
\* per line), or the exception raised
format_route_output(res) ==
    IF "error" \in DOMAIN res THEN [value |-> << "[x] Error: " \o res["error"] >>]
    ELSE IF ~Get(res, "success", FALSE)
    THEN [value |-> << "[x] Failed to compute routes" >>]
    ELSE LET routes == Get(res, "routes", <<>>)
             tf == Get(res, "time_field", "departureTime")
             tv == Get(res, "time_value", "")
             blocks == RoutesLines(routes, 1, tf, tv)
         IN  IF "raise" \in DOMAIN blocks THEN blocks
             ELSE [value |->
                     << "[pin] Routes (" \o ToString(Len(routes))
                            \o " found) - PESSIMISTIC traffic model",
                        "   Reference: " \o tf \o " = " \o tv,
                        "" >>
                     \o blocks.value]

----------------------------------------------------------------------------
(* The inputs of the model *)

Origin == "612 N St Asaph St, Alexandria, VA 22314"
Destination == "1850 N Moore St, Arlington, VA 22209"

\* what a caller passes as departure_time and as arrival_time
DepartureTimes == {None, Some(""), Some("2026-01-28T08:00:00Z")}
ArrivalTimes == {None, Some(""), Some("2026-01-28T14:00:00Z")}

\* an encoded polyline of 75 characters, and its prefixes
SamplePolyline ==
    "_pxiFxpsvU_ulLnnqC_mqNvxqa@oakBkqzFvhcAybnGghk@mtpCmwlBdkuAzzx@ovsD_pciFgps"
LongInstruction ==
    "Turn right onto North Washington Street and continue toward the George Washington Parkway"

PolylineLengths == {1, 59, 60, 61, 75}

\* the steps a leg is made of: no navigationInstruction, an empty
\* instruction, an instruction without maneuver, a long instruction
StepKinds ==
    { EmptyDict,
      [navigationInstruction |-> [instructions |-> "", maneuver |-> "TURN_LEFT"]],
      [navigationInstruction |-> [instructions |-> "Head north on N St Asaph St"]],
      [navigationInstruction |->
          [instructions |-> LongInstruction, maneuver |-> "TURN_RIGHT"]] }

StepSeqs(max) == UNION {[1..n -> StepKinds] : n \in 0..max}

FiveSteps ==
    << [navigationInstruction |-> [instructions |-> "Head north on N St Asaph St"]],
       [navigationInstruction |->
          [instructions |-> LongInstruction, maneuver |-> "TURN_RIGHT"]],
       [navigationInstruction |->
          [instructions |-> "Merge onto I-395 N", maneuver |-> "MERGE"]],
       [navigationInstruction |->
          [instructions |-> "Take exit 10B", maneuver |-> "RAMP_RIGHT"]],
       [navigationInstruction |->
          [instructions |-> "Turn left onto N Moore St", maneuver |-> "TURN_LEFT"]] >>

FullRoute ==
    [distanceMeters |-> 12345,
     duration |-> "1800s",
     summary |-> "I-395 N",
     polyline |-> [encodedPolyline |-> SamplePolyline],
     legs |-> << [steps |-> FiveSteps] >>]

\* the routes of the request pipeline: a full one, one with a duration only,
\* and one the provider sent without its duration
PipelineRoutes == { FullRoute, [duration |-> "65s"], [distanceMeters |-> 800] }

RouteLists(max) == UNION {[1..n -> PipelineRoutes] : n \in 1..max}

\* the JSON values a 2xx body decodes to when it holds no route: values
\* that are no object, and objects without routes
RoutelessData ==
    << JNull, JNumber(42), JString("routes"), JString("ok"),
       JList(<<>>), JList(<<"routes">>),
       JObject(EmptyDict), JObject([status |-> JString("ZERO_RESULTS")]),
       JObject([routes |-> JNull]), JObject([routes |-> JList(<<>>)]) >>

\* the exceptions requests.post raises
PostFailures ==
    { Exc("ConnectionError", "Failed to establish a new connection"),
      Exc("Timeout", "Read timed out. (read timeout=10)") }

ErrorStatuses == {400, 403, 429, 500, 503}

\* the class response.json() raises on a body that is not JSON: that of
\* requests 2.27 and later, or that of the json module (earlier versions)
JsonErrorClasses == {"requests.JSONDecodeError", "JSONDecodeError"}

\* the durations the provider gives a route, for the formatter
DurationStrings == {"0s", "59s", "65s", "3600s", "3661s", "59.9s", "86399s"}

\* the lists of routes the formatter is given on its own
FormatRouteLists ==
    { << [duration |-> "1800s", legs |-> << [steps |-> ss] >>] >> :
          ss \in StepSeqs(MaxSteps) }
    \cup { << [duration |-> "1800s",
               polyline |-> [encodedPolyline |-> Take(SamplePolyline, n)]] >> :
           n \in PolylineLengths }
    \cup { << [duration |-> "1800s", polyline |-> EmptyDict] >> }
    \cup { << [duration |-> "1800s", legs |-> << [steps |-> a], [steps |-> b] >>],
              [duration |-> "65s", legs |-> << EmptyDict, [steps |-> b] >>] >> :
           a \in StepSeqs(1), b \in StepSeqs(MaxSteps - 1) \ StepSeqs(MaxSteps - 2) }
    \cup { << [duration |-> d, distanceMeters |-> 8046] >> : d \in DurationStrings }
    \cup RouteLists(MaxRoutes)

\* the results compute_routes returns, as the formatter's inputs
FormatInputs ==
    { [error |-> "No routes found"],
      [error |-> "API request failed: Read timed out. (read timeout=10)"] }
    \cup { [success |-> TRUE, time_field |-> "departureTime",
            time_value |-> "2026-01-28T08:00:00Z", routes |-> rs] :
           rs \in FormatRouteLists }
    \cup { [success |-> TRUE, time_field |-> "arrivalTime",
            time_value |-> "2026-01-28T14:00:00Z", routes |-> rs] :
           rs \in FormatRouteLists }

\* the arguments of format_duration, in tenths of a second: every whole
\* second up to MaxSeconds, with and without a fraction, and some long ones
DurationInputs ==
    { 10 * n + f : n \in 0..MaxSeconds, f \in {0, 9} }
    \cup { 10 * n : n \in {7200, 7325, 86399, 86400, 90061, 360000} }

----------------------------------------------------------------------------
(* The request pipeline: a caller, compute_routes, the provider, the answer *)

Sites == {"main", "main --json", "/routes", "/routes/formatted"}

Init ==
    /\ pc = "idle"
    /\ site = ""
    /\ args = NoValue
    /\ time_field = ""
    /\ time_value = ""
    /\ request_body = NoValue
    /\ response = NoValue
    /\ result = NoValue
    /\ raised = NoValue
    /\ output = <<>>
    /\ seconds = 0
    /\ reply = NoValue

\* A caller calls compute_routes, which runs to its POST (lines 34-70)
Call ==
    /\ pc = "idle"
    /\ \E s \in Sites, dep \in DepartureTimes, arr \in ArrivalTimes, now \in UtcNow :
         LET t == ResolveTime(dep, arr, now)
         IN  /\ site' = s
             /\ args' = [origin |-> Origin, destination |-> Destination,
                         departure_time |-> dep, arrival_time |-> arr]
             /\ time_field' = t.time_field
             /\ time_value' = t.time_value
             /\ request_body' =
                    BuildRequestBody(Origin, Destination, t.time_field, t.time_value)
    /\ pc' = "posted"
    /\ UNCHANGED <<response, result, raised, output, seconds, reply>>

\* compute_routes ends (lines 70-90) on the outcome resp of its POST
Return(resp) ==
    LET r == ComputeRoutesReturn(resp, time_field, time_value)
    IN  /\ response' = resp
        /\ result' = IF "raise" \in DOMAIN r THEN NoValue ELSE r.value
        /\ raised' = IF "raise" \in DOMAIN r THEN r.raise ELSE NoValue
        /\ pc' = "returned"
        /\ UNCHANGED <<site, args, time_field, time_value, request_body, output,
                       seconds, reply>>

\* the POST fails: no connection, or no answer within the timeout
PostFails ==
    /\ pc = "posted"
    /\ \E e \in PostFailures : Return([kind |-> "fail", exc |-> e])

\* the provider answers with a status that is not 2xx
PostErrorStatus ==
    /\ pc = "posted"
    /\ \E c \in ErrorStatuses : Return([kind |-> "http", status_code |-> c])

\* the provider answers 200 with a body that is not JSON
PostNotJson ==
    /\ pc = "posted"
    /\ \E c \in JsonErrorClasses :
           Return([kind |-> "http", status_code |-> 200, is_json |-> FALSE,
                   json_error |-> c])

\* the provider answers 200 with a JSON body that holds no route
PostJsonNoRoutes ==
    /\ pc = "posted"
    /\ \E i \in DOMAIN RoutelessData :
           Return([kind |-> "http", status_code |-> 200, is_json |-> TRUE,
                   data |-> RoutelessData[i]])

\* the provider answers 200 with routes
PostJsonRoutes ==
    /\ pc = "posted"
    /\ \E rs \in RouteLists(MaxRoutes) :
           Return([kind |-> "http", status_code |-> 200, is_json |-> TRUE,
                   data |-> JObject([routes |-> JList(rs)])])

\* dt.datetime.now(dt.timezone.utc).isoformat() when the facade answers
FacadeNow == "2026-01-28T12:00:01.654321+00:00"

\* main (commute.py lines 203-213): an exception leaves the program with a
\* traceback; --json prints the dict, otherwise the report is printed
Main ==
    /\ pc = "returned"
    /\ site \in {"main", "main --json"}
    /\ LET fmt == format_route_output(result)
       IN  IF raised # NoValue
           THEN /\ reply' = [exit_code |-> 1, traceback |-> raised.class]
                /\ UNCHANGED <<output, raised>>
           ELSE IF site = "main --json"
           THEN /\ reply' = [exit_code |-> 0, printed |-> result]
                /\ UNCHANGED <<output, raised>>
           ELSE IF "raise" \in DOMAIN fmt
           THEN /\ reply' = [exit_code |-> 1, traceback |-> fmt.raise.class]
                /\ raised' = fmt.raise
                /\ UNCHANGED output
           ELSE /\ reply' = [exit_code |-> 0, printed |-> Join("\n", fmt.value)]
                /\ output' = fmt.value
                /\ UNCHANGED raised
    /\ pc' = "done"
    /\ UNCHANGED <<site, args, time_field, time_value, request_body, response,
                   result, seconds>>

\* POST /routes (api.py lines 150-208)
CalculateRoutes ==
    /\ pc = "returned"
    /\ site = "/routes"
    /\ reply' =
         IF raised # NoValue
         THEN [status_code |-> 500,
               detail |-> "Internal server error: " \o raised.msg]
         ELSE IF "error" \in DOMAIN result
         THEN [status_code |-> 400, detail |-> result["error"]]
         ELSE IF ~Get(result, "success", FALSE)
         THEN [status_code |-> 500, detail |-> "Failed to compute routes"]
         ELSE [status_code |-> 200,
               body |-> SetItem(result, "api_metadata",
                   [timestamp |-> FacadeNow,
                    routes_count |-> Len(Get(result, "routes", <<>>)),
                    request_params |->
                        [origin |-> args.origin,
                         destination |-> args.destination,
                         has_departure_time |-> args.departure_time # None,
                         has_arrival_time |-> args.arrival_time # None]])]
    /\ pc' = "done"
    /\ UNCHANGED <<site, args, time_field, time_value, request_body, response,
                   result, raised, output, seconds>>

\* POST /routes/formatted (api.py lines 220-241)
CalculateRoutesFormatted ==
    /\ pc = "returned"
    /\ site = "/routes/formatted"
    /\ LET fmt == format_route_output(result)
       IN  IF raised # NoValue
           THEN /\ reply' = [status_code |-> 500,
                             detail |-> "Internal server error: " \o raised.msg]
                /\ UNCHANGED <<output, raised>>
           ELSE IF "raise" \in DOMAIN fmt
           THEN /\ reply' = [status_code |-> 500,
                             detail |-> "Internal server error: " \o fmt.raise.msg]
                /\ raised' = fmt.raise
                /\ UNCHANGED output
           ELSE /\ reply' = [status_code |-> 200,
                             body |-> [formatted_text |-> Join("\n", fmt.value),
                                       raw_data |-> result,
                                       timestamp |-> FacadeNow]]
                /\ output' = fmt.value
                /\ UNCHANGED raised
    /\ pc' = "done"
    /\ UNCHANGED <<site, args, time_field, time_value, request_body, response,
                   result, seconds>>

\* The request is over; nothing of it is kept for the next one
Finish ==
    /\ pc \in {"done", "formatted", "duration"}
    /\ pc' = "idle"
    /\ site' = ""
    /\ args' = NoValue
    /\ time_field' = ""
    /\ time_value' = ""
    /\ request_body' = NoValue
    /\ response' = NoValue
    /\ result' = NoValue
    /\ raised' = NoValue
    /\ output' = <<>>
    /\ seconds' = 0
    /\ reply' = NoValue

Next ==
    \/ Call
    \/ PostFails
    \/ PostErrorStatus
    \/ PostNotJson
    \/ PostJsonNoRoutes
    \/ PostJsonRoutes
    \/ Main
    \/ CalculateRoutes
    \/ CalculateRoutesFormatted
    \/ Finish

Spec == Init /\ [][Next]_vars

----------------------------------------------------------------------------
(* The formatter on its own: format_route_output and format_duration       *)
(* applied to the inputs above                                             *)

FormatResult ==
    /\ pc = "idle"
    /\ \E res \in FormatInputs :
         LET fmt == format_route_output(res)
         IN  /\ result' = res
             /\ raised' = IF "raise" \in DOMAIN fmt THEN fmt.raise ELSE NoValue
             /\ output' = IF "raise" \in DOMAIN fmt THEN <<>> ELSE fmt.value
    /\ pc' = "formatted"
    /\ UNCHANGED <<site, args, time_field, time_value, request_body, response,
                   seconds, reply>>

FormatDuration ==
    /\ pc = "idle"
    /\ \E s \in DurationInputs :
         /\ seconds' = s
         /\ output' = << format_duration(s) >>
    /\ pc' = "duration"
    /\ UNCHANGED <<site, args, time_field, time_value, request_body, response,
                   result, raised, reply>>

NextFormat ==
    \/ FormatResult
    \/ FormatDuration
    \/ Finish

SpecFormat == Init /\ [][NextFormat]_vars

----------------------------------------------------------------------------
(* The claims about compute_routes, under Spec *)

\* a time argument is supplied when it is a string that is not empty (the
\* arguments are RFC 3339 timestamps or absent; compute_routes tests them for
\* truth, so that "" counts as absent)
Supplied(opt) == opt # None /\ opt[1] # ""

Called == pc \in {"posted", "returned", "done"}

Returned == pc \in {"returned", "done"}

IsOk(res) == "success" \in DOMAIN res /\ res["success"] = TRUE

IsErr(res) == "error" \in DOMAIN res

\* C1: the time constraint is resolved by fixed priority: arrival_time when
\* supplied (whatever departure_time is), else departure_time when supplied,
\* else departureTime with the current UTC instant
C1_TimePriority ==
    Called =>
        IF Supplied(args.arrival_time)
        THEN time_field = "arrivalTime" /\ time_value = args.arrival_time[1]
        ELSE IF Supplied(args.departure_time)
        THEN time_field = "departureTime" /\ time_value = args.departure_time[1]
        ELSE time_field = "departureTime" /\ time_value \in UtcNow

\* both times supplied, and arrival taken
C1_Witness ==
    /\ Called
    /\ Supplied(args.arrival_time)
    /\ Supplied(args.departure_time)
    /\ time_field = "arrivalTime"
    /\ time_value = args.arrival_time[1]

\* the provider answered 2xx with a JSON object that has no routes key or an
\* empty routes list
NoRoutesInBody ==
    /\ response.kind = "http"
    /\ response.status_code = 200
    /\ response.is_json
    /\ response.data.t = "object"
    /\ \/ "routes" \notin DOMAIN response.data.v
       \/ response.data.v["routes"] = JList(<<>>)

\* C2: an Ok result has a non-empty routes sequence, and a body without
\* routes key or with an empty routes list gives Err "No routes found"
C2_OkHasRoutes ==
    Returned /\ raised = NoValue =>
        /\ IsOk(result) =>
              /\ result["routes"] # <<>>
              /\ Len(result["routes"]) >= 1
        /\ NoRoutesInBody => result = [error |-> "No routes found"]

\* an empty routes list was answered with the Err value
C2_Witness ==
    /\ pc = "returned"
    /\ NoRoutesInBody
    /\ "routes" \in DOMAIN response.data.v
    /\ result = [error |-> "No routes found"]

\* C3: compute_routes never raises: whatever the POST met, the call returns
\* an Ok or an Err result
C3_NeverRaises ==
    pc = "returned" => raised = NoValue /\ (IsOk(result) \/ IsErr(result))

\* C4: a transport failure, a timeout and a non-2xx status give a message
\* starting "API request failed: ", and a 2xx body that is not JSON gives one
\* starting "Invalid JSON response: "
C4_ErrorMessages ==
    pc = "returned" =>
        /\ response.kind = "fail" \/ response.status_code # 200 =>
              /\ raised = NoValue
              /\ IsErr(result)
              /\ StartsWith(result["error"], "API request failed: ")
        /\ response.kind = "http" /\ response.status_code = 200
              /\ ~response.is_json =>
              /\ raised = NoValue
              /\ IsErr(result)
              /\ StartsWith(result["error"], "Invalid JSON response: ")

\* C9: the request body carries exactly one of departureTime and arrivalTime,
\* and an Ok result names that key in time_field and its value in time_value
C9_OneTimeKeyEchoed ==
    Called =>
        /\ Cardinality({"departureTime", "arrivalTime"} \cap DOMAIN request_body) = 1
        /\ Returned /\ raised = NoValue /\ IsOk(result) =>
              /\ result["time_field"] \in {"departureTime", "arrivalTime"}
              /\ result["time_field"] \in DOMAIN request_body
              /\ request_body[result["time_field"]] = result["time_value"]

\* both times supplied, an Ok result, and the one key sent is arrivalTime
C9_Witness ==
    /\ pc = "returned"
    /\ Supplied(args.arrival_time)
    /\ Supplied(args.departure_time)
    /\ raised = NoValue
    /\ IsOk(result)
    /\ "arrivalTime" \in DOMAIN request_body
    /\ "departureTime" \notin DOMAIN request_body
    /\ result["time_value"] = request_body["arrivalTime"]

----------------------------------------------------------------------------
(* The claims about the report and the facade *)

\* the blocks of a report: its runs of lines, each closed by an empty line
RECURSIVE Blocks(_, _)
Blocks(lines, cur) ==
    IF lines = <<>> THEN (IF cur = <<>> THEN <<>> ELSE <<cur>>)
    ELSE IF Head(lines) = "" THEN <<cur>> \o Blocks(Tail(lines), <<>>)
    ELSE Blocks(Tail(lines), Append(cur, Head(lines)))

\* the blocks of the candidates: those after the header
RouteBlocks(lines) == Tail(Blocks(lines, <<>>))

LinesWith(block, p) ==
    LET Test(l) == StartsWith(l, p) IN SelectSeq(block, Test)

\* a report was made of an Ok result, by main or by POST /routes/formatted
ReportMade ==
    /\ pc = "done"
    /\ site \in {"main", "/routes/formatted"}
    /\ raised = NoValue
    /\ IsOk(result)

\* C8: each candidate's block has a Latest Departure line if and only if the
\* query used an arrival time
C8_LatestDepartureIffArrival ==
    ReportMade =>
        LET blocks == RouteBlocks(output)
        IN  /\ Len(blocks) = Len(result["routes"])
            /\ \A i \in DOMAIN blocks :
                  LinesWith(blocks[i], "  Latest Departure") # <<>>
                      <=> Supplied(args.arrival_time)

\* two candidates of an arrival query, each with its Latest Departure line
C8_Witness ==
    /\ ReportMade
    /\ Supplied(args.arrival_time)
    /\ Len(result["routes"]) = 2
    /\ \A i \in 1..2 :
          LinesWith(RouteBlocks(output)[i], "  Latest Departure") =
              << "  Latest Departure (to arrive on time): 8:30 AM" >>

\* C10: on both endpoints the status is 200 only for an Ok result, an Err
\* result is never answered 200 and is answered 400 when the client's data
\* caused it (no routes for the addresses, a 4xx of the provider), and an
\* exception raised while handling the request is answered 500
C10_StatusFollowsOutcome ==
    pc = "done" /\ site \in {"/routes", "/routes/formatted"} =>
        /\ reply.status_code = 200 => raised = NoValue /\ IsOk(result)
        /\ raised # NoValue => reply.status_code = 500
        /\ raised = NoValue /\ IsErr(result) =>
              /\ reply.status_code # 200
              /\ \/ result["error"] = "No routes found"
                 \/ response.kind = "http" /\ response.status_code \in 400..499
                 => reply.status_code = 400

----------------------------------------------------------------------------
(* The claims about the formatter, under SpecFormat *)

Formatted == pc = "formatted" /\ raised = NoValue /\ IsOk(result)

EncodedOf(route) ==
    IF "polyline" \in DOMAIN route /\ "encodedPolyline" \in DOMAIN route["polyline"]
    THEN route["polyline"]["encodedPolyline"] ELSE ""

\* C6: a polyline longer than 60 characters is shown as its first 60
\* characters and the ellipsis marker, a shorter one in full with no marker
C6_PolylineEllipsis ==
    Formatted =>
        \A i \in DOMAIN result["routes"] :
            LET encoded == EncodedOf(result["routes"][i])
                shown == LinesWith(RouteBlocks(output)[i], "  Polyline (encoded): ")
            IN  encoded # "" =>
                    shown = << "  Polyline (encoded): "
                               \o (IF Len(encoded) > 60
                                   THEN SubSeq(encoded, 1, 60) \o "..."
                                   ELSE encoded) >>

\* the lines of leg k in a candidate's block: those after its header, up to
\* the next leg's
RECURSIVE LegSegment(_, _, _)
LegSegment(block, k, inside) ==
    IF block = <<>> THEN <<>>
    ELSE IF StartsWith(Head(block), "  Leg ")
    THEN (IF inside THEN <<>>
          ELSE LegSegment(Tail(block), k,
                          Head(block) = "  Leg " \o ToString(k) \o ":"))
    ELSE (IF inside THEN <<Head(block)>> ELSE <<>>)
         \o LegSegment(Tail(block), k, inside)

IsNumbered(l) == StartsWith(l, "      ") /\ Len(l) >= 7 /\ IsDigit(CharAt(l, 7))

NumberedLines(segment) == SelectSeq(segment, IsNumbered)

MoreLines(segment) == LinesWith(segment, "      ... and ")

InstructionOf(step) ==
    IF "navigationInstruction" \in DOMAIN step
       /\ "instructions" \in DOMAIN step["navigationInstruction"]
    THEN step["navigationInstruction"]["instructions"] ELSE ""

ManeuverOf(step) ==
    IF "navigationInstruction" \in DOMAIN step
       /\ "maneuver" \in DOMAIN step["navigationInstruction"]
    THEN step["navigationInstruction"]["maneuver"] ELSE "STRAIGHT"

\* "<index>. <maneuver>: <first 60 chars of instruction>"
NumberedLine(step, idx) ==
    "      " \o ToString(idx) \o ". " \o ManeuverOf(step) \o ": "
    \o (IF Len(InstructionOf(step)) > 60
        THEN SubSeq(InstructionOf(step), 1, 60) ELSE InstructionOf(step))

\* the remaining steps' line of a leg with n steps
MoreExpected(n) ==
    IF n > 3 THEN << "      ... and " \o ToString(n - 3) \o " more steps" >>
    ELSE <<>>

LegsOf(route) == IF "legs" \in DOMAIN route THEN route["legs"] ELSE <<>>

\* the legs of the report: <<i, k>> is leg k of candidate i
LegsOfReport ==
    UNION { { <<i, k>> : k \in DOMAIN LegsOf(result["routes"][i]) } :
            i \in DOMAIN result["routes"] }

StepsAt(leg) ==
    LET l == LegsOf(result["routes"][leg[1]])[leg[2]]
    IN  IF "steps" \in DOMAIN l THEN l["steps"] ELSE <<>>

\* the lines the report gives a leg
SegmentAt(leg) == LegSegment(RouteBlocks(output)[leg[1]], leg[2], FALSE)

\* C7 as stated: every leg with n steps has exactly min(n, 3) numbered
\* lines, one for each of its first steps in order, whatever the steps hold,
\* and one line counting the n - 3 remaining steps when n > 3
C7_StepLinesAsStated ==
    Formatted =>
        \A leg \in LegsOfReport :
            LET n == Len(StepsAt(leg))
                m == IF n < 3 THEN n ELSE 3
            IN  /\ NumberedLines(SegmentAt(leg)) =
                       [idx \in 1..m |-> NumberedLine(StepsAt(leg)[idx], idx)]
                /\ MoreLines(SegmentAt(leg)) = MoreExpected(n)

\* C7 amended: the numbered lines are those of the steps, among the first
\* min(n, 3), whose instruction text is not empty, each under its position
\* among the steps, and the count of remaining steps is given when n > 3
C7_StepLinesOfNonEmpty ==
    Formatted =>
        \A leg \in LegsOfReport :
            LET n == Len(StepsAt(leg))
                m == IF n < 3 THEN n ELSE 3
                kept == {idx \in 1..m : InstructionOf(StepsAt(leg)[idx]) # ""}
                lines == NumberedLines(SegmentAt(leg))
            IN  /\ Len(lines) = Cardinality(kept)
                /\ \A idx \in kept :
                      lines[Cardinality({j \in kept : j <= idx})] =
                          NumberedLine(StepsAt(leg)[idx], idx)
                /\ MoreLines(SegmentAt(leg)) = MoreExpected(n)

\* a leg of 5 steps, the second with an empty instruction: lines 1 and 3,
\* then "2 more steps"
C7_Witness ==
    /\ Formatted
    /\ \E leg \in LegsOfReport :
          /\ Len(StepsAt(leg)) = 5
          /\ InstructionOf(StepsAt(leg)[1]) # ""
          /\ InstructionOf(StepsAt(leg)[2]) = ""
          /\ InstructionOf(StepsAt(leg)[3]) # ""
          /\ Len(NumberedLines(SegmentAt(leg))) = 2
          /\ StartsWith(NumberedLines(SegmentAt(leg))[2], "      3. ")
          /\ MoreLines(SegmentAt(leg)) = << "      ... and 2 more steps" >>

\* the components of a duration of whole seconds s, as the claim gives them
DurationText(s) ==
    LET h == s \div 3600
        m == (s % 3600) \div 60
        r == s % 60
        H == IF h > 0 THEN ToString(h) \o "h" ELSE ""
        M == IF m > 0 THEN ToString(m) \o "m" ELSE ""
        R == IF r > 0 THEN ToString(r) \o "s" ELSE ""
        HM == IF H # "" /\ M # "" THEN H \o " " \o M ELSE H \o M
        HMR == IF HM # "" /\ R # "" THEN HM \o " " \o R ELSE HM \o R
    IN  IF HMR = "" THEN "0s" ELSE HMR

\* C5: format_duration truncates to whole seconds, gives the hours, minutes
\* and seconds that are not zero, in that order and space separated, and "0s"
\* when all are zero: never the empty string
C5_FormatDuration ==
    pc = "duration" =>
        /\ output = << DurationText(seconds \div 10) >>
        /\ output[1] # ""
        /\ seconds = 0 => output[1] = "0s"
        /\ seconds = 650 => output[1] = "1m 5s"
        /\ seconds = 36610 => output[1] = "1h 1m 1s"
        /\ seconds = 36000 => output[1] = "1h"

\* 3661 seconds give "1h 1m 1s"
C5_Witness ==
    /\ pc = "duration"
    /\ seconds = 36610
    /\ output = << "1h 1m 1s" >>
====
